---- MODULE Spec2Model ----
(***************************************************************************)
(* A model of the secure filesystem server of zoz-11/servers: the          *)
(* sandboxed path resolver (PathUtils.validatePath), the tolerant patch    *)
(* engine (FileEditor.applyFileEdits) and the tool dispatch of the server  *)
(* (FilesystemServer.handleCallTool).                                      *)
(*                                                                         *)
(* A string is a sequence of one-character strings, so that prefix tests,  *)
(* substring search, splitting and trimming are computed as the code       *)
(* computes them.                                                          *)
(***************************************************************************)
EXTENDS Integers, Sequences, FiniteSets, TLC

VARIABLES
    \* ---- PathUtils.validatePath (one call in flight) ----
    allowedDirectories,  \* the allow-list handed to the constructor
    requestedPath,       \* the caller's path string
    absolute,            \* const absolute (file-editor.ts:130)
    vpc,                 \* position of the call: idle, realpath, parent, done
    vresult,             \* what the call returned or threw
    realOutcome,         \* what fs.realpath(absolute) answered
    parentOutcome,       \* what fs.realpath(parentDir) answered
    fsCalls,             \* the filesystem queries issued so far, in order
    \* ---- FileEditor.applyFileEdits (one call in flight) ----
    disk,                \* content of the edited file on disk
    disk0,               \* its content when the call started
    filePath,            \* argument filePath
    edits,               \* argument edits: sequence of [oldText, newText]
    dryRun,              \* argument dryRun
    pc,                  \* position of the call
    validPath,           \* const validPath (file-editor.ts:36)
    content,             \* const content (file-editor.ts:39)
    modifiedContent,     \* let modifiedContent (file-editor.ts:42)
    k,                   \* number of edits the loop has gone through
    prev,                \* modifiedContent before the last loop iteration
    how,                 \* strategy that applied the last edit
    result,              \* what the call returned or threw
    writeCalls,          \* number of fs.writeFile calls issued
    \* ---- FilesystemServer.handleCallTool (one request in flight) ----
    files,               \* the filesystem under the allowed directory
    files0,              \* the filesystem when the request arrived
    request,             \* request.params: the tool name and its arguments
    spc,                 \* position of the handler
    validPaths,          \* the paths validatePath has returned so far
    response,            \* what handleCallTool returned
    ops,                 \* the fs operations issued for the request, in order
    callbacks,           \* read_multiple_files: position of each path's callback
    batch,               \* read_multiple_files: the array Promise.all resolves to
    finished,            \* read_multiple_files: the callbacks in completion order
    \* ---- a second applyFileEdits call on the same file ----
    callB                \* its position, arguments and locals

pathVars == <<allowedDirectories, requestedPath, absolute, vpc, vresult,
              realOutcome, parentOutcome, fsCalls>>
editVars == <<disk, disk0, filePath, edits, dryRun, pc, validPath, content,
              modifiedContent, k, prev, how, result, writeCalls>>
serverVars == <<files, files0, request, spc, validPaths, response, ops,
                callbacks, batch, finished>>
vars == <<pathVars, editVars, serverVars, callB>>

-----------------------------------------------------------------------------
(* Bounds of the model.                                                    *)

MaxPathLen == 4      \* longest requested path string
MaxRealLen == 4      \* longest path fs.realpath answers
MaxRoots   == 2      \* most entries of the allow-list
MaxEdits   == 2      \* most edits of one applyFileEdits call
MaxTextLen == 2      \* longest text of a single-edit input
MaxLineEndLen == 3   \* longest text of a single-edit input made of line ends only
MaxFenceLen   == 3   \* longest text of a single-edit input holding grave accents
MaxBatch      == 2   \* most paths of a read_multiple_files request
MaxNameLen    == 3   \* longest requested path over names holding the letters ENOENT
MaxContentLines == 3 \* most lines of the file of a single-edit input made of lines

-----------------------------------------------------------------------------
(* Strings.                                                                *)

Strings(alphabet, n) == UNION {[1..m -> alphabet] : m \in 0..n}

\* String.prototype.startsWith
StartsWith(s, p) == Len(p) <= Len(s) /\ SubSeq(s, 1, Len(p)) = p

\* String.prototype.slice(from) with a 0-based from
SliceFrom(s, from) == SubSeq(s, from + 1, Len(s))

\* 1-based positions at which sub occurs in s
Occurrences(s, sub) ==
    {i \in 1..(Len(s) - Len(sub) + 1) : SubSeq(s, i, i + Len(sub) - 1) = sub}

\* String.prototype.includes
Includes(s, sub) == Occurrences(s, sub) # {}

\* String.prototype.indexOf, 1-based (0 when absent)
IndexOf(s, sub) ==
    IF Includes(s, sub)
    THEN CHOOSE i \in Occurrences(s, sub) : \A j \in Occurrences(s, sub) : i <= j
    ELSE 0

\* String.prototype.split(sep) for a one-character separator
RECURSIVE SplitBy(_, _)
SplitBy(s, sep) ==
    IF \A i \in 1..Len(s) : s[i] # sep
    THEN <<s>>
    ELSE LET i == CHOOSE i \in 1..Len(s) :
                     s[i] = sep /\ \A j \in 1..(i - 1) : s[j] # sep
         IN  <<SubSeq(s, 1, i - 1)>> \o SplitBy(SubSeq(s, i + 1, Len(s)), sep)

\* Array.prototype.join(sep)
RECURSIVE JoinBy(_, _)
JoinBy(parts, sep) ==
    IF parts = <<>> THEN <<>>
    ELSE IF Len(parts) = 1 THEN parts[1]
    ELSE parts[1] \o <<sep>> \o JoinBy(Tail(parts), sep)

-----------------------------------------------------------------------------
(* The injected path and os modules (POSIX).                               *)

Slash == "/"
Dot   == "."
Tilde == "~"
DotDot == <<Dot, Dot>>

\* os.homedir() and process.cwd() of the modelled process
HomeDir == <<"/", "a", "a">>
Cwd     == <<"/", "a">>

\* path.isAbsolute
IsAbsolute(p) == Len(p) > 0 /\ p[1] = Slash

\* normalizeString of Node's path module: drops empty and "." segments and
\* lets ".." remove the segment before it
RECURSIVE NormalizeSegments(_, _, _)
NormalizeSegments(segs, acc, allowAboveRoot) ==
    IF segs = <<>> THEN acc
    ELSE LET h == Head(segs)
             t == Tail(segs)
         IN  IF h = <<>> \/ h = <<Dot>>
             THEN NormalizeSegments(t, acc, allowAboveRoot)
             ELSE IF h = DotDot
             THEN IF acc # <<>> /\ acc[Len(acc)] # DotDot
                  THEN NormalizeSegments(t, SubSeq(acc, 1, Len(acc) - 1), allowAboveRoot)
                  ELSE IF allowAboveRoot
                       THEN NormalizeSegments(t, Append(acc, h), allowAboveRoot)
                       ELSE NormalizeSegments(t, acc, allowAboveRoot)
             ELSE NormalizeSegments(t, Append(acc, h), allowAboveRoot)

\* path.normalize
PathNormalize(p) ==
    IF p = <<>> THEN <<Dot>>
    ELSE LET isAbs    == p[1] = Slash
             trailing == p[Len(p)] = Slash
             body     == JoinBy(NormalizeSegments(SplitBy(p, Slash), <<>>, ~isAbs), Slash)
         IN  IF body = <<>>
             THEN IF isAbs THEN <<Slash>>
                  ELSE IF trailing THEN <<Dot, Slash>> ELSE <<Dot>>
             ELSE (IF isAbs THEN <<Slash>> ELSE <<>>) \o body
                  \o (IF trailing THEN <<Slash>> ELSE <<>>)

\* path.join(a, b)
PathJoin(a, b) ==
    IF a = <<>> /\ b = <<>> THEN <<Dot>>
    ELSE IF a = <<>> THEN PathNormalize(b)
    ELSE IF b = <<>> THEN PathNormalize(a)
    ELSE PathNormalize(a \o <<Slash>> \o b)

\* path.resolve(p) for one argument, and path.resolve(base, p): the rightmost
\* absolute argument wins, empty arguments are skipped, the result is absolute
\* with no trailing separator
PathResolve(base, p) ==
    LET joined == IF p = <<>> THEN base
                  ELSE IF IsAbsolute(p) THEN p
                  ELSE base \o <<Slash>> \o p
    IN  <<Slash>> \o JoinBy(NormalizeSegments(SplitBy(joined, Slash), <<>>, FALSE), Slash)

\* path.dirname
PathDirname(p) ==
    IF p = <<>> THEN <<Dot>>
    ELSE LET ends == {i \in 2..Len(p) :
                        p[i] = Slash /\ \E j \in (i + 1)..Len(p) : p[j] # Slash}
         IN  IF ends = {}
             THEN IF p[1] = Slash THEN <<Slash>> ELSE <<Dot>>
             ELSE LET e == CHOOSE i \in ends : \A j \in ends : j <= i
                  IN  IF p[1] = Slash /\ e = 2 THEN <<Slash, Slash>>
                      ELSE SubSeq(p, 1, e - 1)

-----------------------------------------------------------------------------
(* PathUtils (file-editor.ts:114-176).                                     *)

PathAlphabet == {Slash, "a", Dot, Tilde}
RealAlphabet == {Slash, "a"}

\* what a caller may pass as a path
RequestedPaths == Strings(PathAlphabet, MaxPathLen)

\* fs.realpath answers with a canonical absolute path, or fails
RealPaths ==
    {p \in Strings(RealAlphabet, MaxRealLen) : IsAbsolute(p) /\ PathResolve(Cwd, p) = p}

NoPath  == <<>>
NoError == "none"

Resolved(p)  == [ok |-> TRUE,  path |-> p,      error |-> NoError]
Rejected(e)  == [ok |-> FALSE, path |-> NoPath, error |-> e]
NoAnswer     == [ok |-> FALSE, path |-> NoPath, error |-> NoError]

\* the errors fs.realpath raises: not found, and one that is not a not-found
FsErrors == {"ENOENT", "EACCES"}
RealpathAnswers == {Resolved(p) : p \in RealPaths} \cup {Rejected(e) : e \in FsErrors}

\* the message of a permission error raised for a path one of whose names holds
\* the letters ENOENT: the message of an fs error quotes the path
EaccesQuotingENOENT == "EACCES: permission denied, realpath ENOENT"

\* error.message.includes('ENOENT') and error.message.includes('Access denied')
MessageIncludesENOENT(e)       == e \in {"ENOENT", EaccesQuotingENOENT}
MessageIncludesAccessDenied(e) == e \in {"AccessDeniedPath", "AccessDeniedSymlink"}

\* the allow-lists a server may be constructed with
RootCandidates == { <<"/", "a">>, <<"/", "a", "a">>, <<"/", "a", "/", "a">> }
AllowedDirectoryLists ==
    {l \in UNION {[1..n -> RootCandidates] : n \in 1..MaxRoots} :
        \A i, j \in DOMAIN l : i # j => l[i] # l[j]}

NormalizePath(p) == PathNormalize(p)

ExpandHome(filepath) ==
    IF StartsWith(filepath, <<Tilde, Slash>>) \/ filepath = <<Tilde>>
    THEN PathJoin(HomeDir, SliceFrom(filepath, 1))
    ELSE filepath

\* const absolute
AbsoluteOf(requested) ==
    LET expandedPath == ExpandHome(requested)
    IN  IF IsAbsolute(expandedPath)
        THEN PathResolve(<<>>, expandedPath)
        ELSE PathResolve(Cwd, expandedPath)

\* allowedDirectories.some(dir => p.startsWith(dir))
IsAllowedPath(p, dirs) == \E i \in DOMAIN dirs : StartsWith(p, dirs[i])

\* the try block once fs.realpath(absolute) has answered with a path
CheckRealPath(realPath, dirs) ==
    IF IsAllowedPath(NormalizePath(realPath), dirs)
    THEN Resolved(realPath)
    ELSE Rejected("AccessDeniedSymlink")

\* ParentFallback with the not-found case lost: the parent's answer is ignored
ParentFallbackIgnoresParent(abs, parentAnswer, error) == Resolved(abs)

\* the inner try/catch once fs.realpath(parentDir) has answered
ParentFallback(abs, parentAnswer, error) ==
    IF parentAnswer.ok THEN Resolved(abs) ELSE Rejected(error)

\* validatePath up to its first await
VPCall(p) ==
    /\ vpc = "idle"
    /\ requestedPath' = p
    /\ absolute' = AbsoluteOf(p)
    /\ IF IsAllowedPath(NormalizePath(absolute'), allowedDirectories)
       THEN /\ vpc' = "realpath"
            /\ fsCalls' = Append(fsCalls, [op |-> "realpath", path |-> absolute'])
            /\ vresult' = vresult
       ELSE /\ vpc' = "done"
            /\ vresult' = Rejected("AccessDeniedPath")
            /\ fsCalls' = fsCalls
    /\ UNCHANGED <<allowedDirectories, realOutcome, parentOutcome>>
    /\ UNCHANGED <<editVars, serverVars, callB>>

\* fs.realpath(absolute) answers
VPRealpath(answer) ==
    /\ vpc = "realpath"
    /\ realOutcome' = answer
    /\ IF answer.ok
       THEN /\ vresult' = CheckRealPath(answer.path, allowedDirectories)
            /\ vpc' = "done"
            /\ fsCalls' = fsCalls
       ELSE IF MessageIncludesENOENT(answer.error)
       THEN /\ vpc' = "parent"
            /\ fsCalls' = Append(fsCalls, [op |-> "realpath", path |-> PathDirname(absolute)])
            /\ vresult' = vresult
       ELSE /\ vresult' = Rejected(answer.error)
            /\ vpc' = "done"
            /\ fsCalls' = fsCalls
    /\ UNCHANGED <<allowedDirectories, requestedPath, absolute, parentOutcome>>
    /\ UNCHANGED <<editVars, serverVars, callB>>

\* fs.realpath(parentDir) answers
VPParent(answer) ==
    /\ vpc = "parent"
    /\ parentOutcome' = answer
    /\ vresult' = ParentFallback(absolute, answer, realOutcome.error)
    /\ vpc' = "done"
    /\ UNCHANGED <<allowedDirectories, requestedPath, absolute, realOutcome, fsCalls>>
    /\ UNCHANGED <<editVars, serverVars, callB>>

\* what applyFileEdits returned (the fenced diff) or threw (the error, and the
\* text its message quotes)
NoDiff == <<>>
Returned(diff)       == [status |-> "returned", diff |-> diff,   error |-> NoError, text |-> <<>>]
Thrown(error, text)  == [status |-> "thrown",   diff |-> NoDiff, error |-> error,   text |-> text]
Pending              == [status |-> "none",     diff |-> NoDiff, error |-> NoError, text |-> <<>>]

\* no applyFileEdits call in this behaviour
EditIdle ==
    /\ disk = <<>> /\ disk0 = <<>> /\ filePath = <<>> /\ edits = <<>>
    /\ dryRun = FALSE /\ pc = "off" /\ validPath = <<>>
    /\ content = <<>> /\ modifiedContent = <<>>
    /\ k = 0 /\ prev = <<>> /\ how = "none" /\ result = Pending /\ writeCalls = 0

\* what handleCallTool returns: the text of content[0] and the isError flag
NoResponse == [isError |-> FALSE, text |-> <<>>]
NoRequest  == [name |-> "none", paths |-> <<>>, wellFormed |-> FALSE]

\* no tool request in this behaviour
ServerIdle ==
    /\ files = <<>> /\ files0 = <<>> /\ request = NoRequest
    /\ spc = "off" /\ validPaths = <<>> /\ response = NoResponse
    /\ ops = <<>> /\ callbacks = <<>> /\ batch = <<>> /\ finished = <<>>

\* the locals of an applyFileEdits call, and where it stands
CallState(at, es, read, working, n, res) ==
    [pc |-> at, edits |-> es, content |-> read, modifiedContent |-> working,
     k |-> n, result |-> res]

\* no second applyFileEdits call in this behaviour
SecondCallIdle == callB = CallState("off", <<>>, <<>>, <<>>, 0, Pending)

\* no validatePath call of its own in this behaviour
PathIdle ==
    /\ requestedPath = <<>> /\ absolute = <<>>
    /\ vpc = "off" /\ vresult = NoAnswer /\ realOutcome = NoAnswer
    /\ parentOutcome = NoAnswer /\ fsCalls = <<>>

InitPath ==
    /\ allowedDirectories \in AllowedDirectoryLists
    /\ requestedPath = <<>>
    /\ absolute = <<>>
    /\ vpc = "idle"
    /\ vresult = NoAnswer
    /\ realOutcome = NoAnswer
    /\ parentOutcome = NoAnswer
    /\ fsCalls = <<>>
    /\ EditIdle
    /\ ServerIdle
    /\ SecondCallIdle

NextPath ==
    \/ \E p \in RequestedPaths : VPCall(p)
    \/ \E answer \in RealpathAnswers : VPRealpath(answer)
    \/ \E answer \in RealpathAnswers : VPParent(answer)

SpecPath == InitPath /\ [][NextPath]_vars

-----------------------------------------------------------------------------
(* Claims about validatePath.                                              *)

\* p is root itself or lies below it: root followed by a separator boundary
IsWithinRoot(p, root) == p = root \/ StartsWith(p, root \o <<Slash>>)
IsWithinSomeRoot(p, dirs) == \E i \in DOMAIN dirs : IsWithinRoot(p, dirs[i])

VPReturned == vpc = "done" /\ vresult.ok

\* C1 -- Sandbox soundness: validatePath returns a path only if the normalized
\* absolute form of the requested path is a descendant of (or equal to) some
\* allowed root and, when the path exists, so is the real path fs.realpath gave;
\* a path nominally inside a root whose real path lies outside every root is
\* rejected with an 'Access denied' error.
C1_SandboxSoundness ==
    /\ VPReturned =>
         /\ IsWithinSomeRoot(NormalizePath(absolute), allowedDirectories)
         /\ realOutcome.ok =>
              IsWithinSomeRoot(NormalizePath(realOutcome.path), allowedDirectories)
    /\ ( /\ vpc = "done"
         /\ realOutcome.ok
         /\ ~IsWithinSomeRoot(NormalizePath(realOutcome.path), allowedDirectories) )
       => (~vresult.ok /\ MessageIncludesAccessDenied(vresult.error))

\* C2 -- Boundary-safe prefix matching: the allow-list check lets a normalized
\* path through only when it equals a root or starts with a root followed by a
\* path separator, for the nominal check (anything that got past it) and for the
\* real-path check (anything returned after fs.realpath answered).
C2_BoundarySafePrefix ==
    /\ (vpc \in {"realpath", "parent"} \/ realOutcome # NoAnswer)
         => \E i \in DOMAIN allowedDirectories :
               IsWithinRoot(NormalizePath(absolute), allowedDirectories[i])
    /\ (VPReturned /\ realOutcome.ok)
         => \E i \in DOMAIN allowedDirectories :
               IsWithinRoot(NormalizePath(realOutcome.path), allowedDirectories[i])

\* C5 -- New-file path allowance: when the path passed the allow-list check and
\* fs.realpath of it failed with a not-found error, validatePath returns the
\* absolute, not yet existing path if fs.realpath of the parent directory
\* succeeded, and fails with the not-found error if the parent does not exist.
C5_NewFileAllowance ==
    ( /\ vpc = "done"
      /\ ~realOutcome.ok
      /\ realOutcome.error = "ENOENT" )
    => /\ parentOutcome.ok => vresult = Resolved(absolute)
       /\ (~parentOutcome.ok /\ parentOutcome.error = "ENOENT")
            => vresult = Rejected("ENOENT")

C5_Witness ==
    /\ vpc = "done"
    /\ realOutcome = Rejected("ENOENT")
    /\ parentOutcome.ok
    /\ vresult = Resolved(absolute)
    /\ absolute # parentOutcome.path

-----------------------------------------------------------------------------
(* Text primitives of the patch engine (JavaScript string semantics).      *)

LF    == "\n"
CR    == "\r"
Space == " "
Tab   == "\t"
Dollar    == "$"
Ampersand == "&"
\* the grave accent and the apostrophe, which a string literal here cannot hold
Backtick  == "grave"
Quote     == "apostrophe"

\* the characters \s, trim() and trimStart() treat as whitespace
WhiteSpace == {Space, Tab, LF, CR}

\* NormalizeLineEndings with the replacement lost
NormalizeLineEndingsNone(text) == text

\* text.replace(/\r\n/g, '\n'): every CR LF pair, scanned left to right
RECURSIVE NormalizeLineEndings(_)
NormalizeLineEndings(text) ==
    IF text = <<>> THEN <<>>
    ELSE IF Len(text) >= 2 /\ text[1] = CR /\ text[2] = LF
    THEN <<LF>> \o NormalizeLineEndings(SubSeq(text, 3, Len(text)))
    ELSE <<text[1]>> \o NormalizeLineEndings(Tail(text))

\* line.match(/^\s*/)[0]
LeadingWhitespace(line) ==
    LET n == CHOOSE n \in 0..Len(line) :
                 /\ \A i \in 1..n : line[i] \in WhiteSpace
                 /\ n < Len(line) => line[n + 1] \notin WhiteSpace
    IN  SubSeq(line, 1, n)

\* String.prototype.trimStart and trim
TrimStart(line) == SubSeq(line, Len(LeadingWhitespace(line)) + 1, Len(line))
TrimEnd(line) ==
    LET n == CHOOSE n \in 0..Len(line) :
                 /\ \A i \in (n + 1)..Len(line) : line[i] \in WhiteSpace
                 /\ n > 0 => line[n] \notin WhiteSpace
    IN  SubSeq(line, 1, n)
Trim(line) == TrimEnd(TrimStart(line))

\* ' '.repeat(n)
Repeat(ch, n) == [i \in 1..n |-> ch]

\* GetSubstitution of String.prototype.replace for a string pattern (no capture
\* groups): $$ is a dollar sign, $& the matched text, $ and a grave accent the
\* text before the match, $ and an apostrophe the text after it; any other
\* character stands for itself
RECURSIVE GetSubstitution(_, _, _, _)
GetSubstitution(matched, before, after, replacement) ==
    IF replacement = <<>> THEN <<>>
    ELSE IF Len(replacement) >= 2 /\ replacement[1] = Dollar
            /\ replacement[2] \in {Dollar, Ampersand, Backtick, Quote}
    THEN (CASE replacement[2] = Dollar    -> <<Dollar>>
            [] replacement[2] = Ampersand -> matched
            [] replacement[2] = Backtick  -> before
            [] replacement[2] = Quote     -> after)
         \o GetSubstitution(matched, before, after, SubSeq(replacement, 3, Len(replacement)))
    ELSE <<replacement[1]>>
         \o GetSubstitution(matched, before, after, Tail(replacement))

\* s.replace(pattern, replacement) for a string pattern: the first occurrence
StringReplace(s, pattern, replacement) ==
    LET at == IndexOf(s, pattern)
    IN  IF at = 0 THEN s
        ELSE LET before == SubSeq(s, 1, at - 1)
                 after  == SubSeq(s, at + Len(pattern), Len(s))
             IN  before \o GetSubstitution(pattern, before, after, replacement) \o after

\* lines.splice(at, count, ...items) on a copy, at 1-based
Splice(lines, at, count, items) ==
    SubSeq(lines, 1, at - 1) \o items \o SubSeq(lines, at + count, Len(lines))

-----------------------------------------------------------------------------
(* FileEditor.applyFileEdits: one pass of the edit loop                    *)
(* (file-editor.ts:43-92).                                                 *)

Max(a, b) == IF a >= b THEN a ELSE b

\* the exact strategy: modifiedContent.replace(normalizedOld, normalizedNew)
ExactReplace(working, normalizedOld, normalizedNew) ==
    StringReplace(working, normalizedOld, normalizedNew)

\* oldLines.every((oldLine, j) => oldLine.trim() === contentLine.trim())
IsMatch(contentLines, oldLines, i) ==
    \A j \in 1..Len(oldLines) : Trim(oldLines[j]) = Trim(contentLines[i + j - 1])

\* start indexes (1-based) of the windows the for loop accepts
MatchingWindows(contentLines, oldLines) ==
    {i \in 1..(Len(contentLines) - Len(oldLines) + 1) : IsMatch(contentLines, oldLines, i)}

\* FirstWindow with the loop keeping the last window it accepts
LastWindow(contentLines, oldLines) ==
    LET ws == MatchingWindows(contentLines, oldLines)
    IN  IF ws = {} THEN 0 ELSE CHOOSE i \in ws : \A j \in ws : i >= j

\* the window the for loop stops at: the first one (0 when there is none)
FirstWindow(contentLines, oldLines) ==
    LET ws == MatchingWindows(contentLines, oldLines)
    IN  IF ws = {} THEN 0 ELSE CHOOSE i \in ws : \A j \in ws : i <= j

\* FirstNewLine with the indentation of the instruction text kept
FirstNewLineOwnIndent(originalIndent, line) == line

\* j === 0: originalIndent + line.trimStart()
FirstNewLine(originalIndent, line) == originalIndent \o TrimStart(line)

\* SubsequentNewLine with the relative indentation lost
SubsequentNewLineAsIs(originalIndent, oldLines, line, j) == line

\* j > 0: relative indentation where both sides have some, else the line as is
SubsequentNewLine(originalIndent, oldLines, line, j) ==
    LET oldIndent == IF j <= Len(oldLines) THEN LeadingWhitespace(oldLines[j]) ELSE <<>>
        newIndent == LeadingWhitespace(line)
    IN  IF oldIndent # <<>> /\ newIndent # <<>>
        THEN originalIndent
             \o Repeat(Space, Max(0, Len(newIndent) - Len(oldIndent)))
             \o TrimStart(line)
        ELSE line

\* normalizedNew.split('\n').map(...)
NewLines(normalizedNew, oldLines, originalIndent) ==
    LET lines == SplitBy(normalizedNew, LF)
    IN  [j \in 1..Len(lines) |->
            IF j = 1 THEN FirstNewLine(originalIndent, lines[j])
            ELSE SubsequentNewLine(originalIndent, oldLines, lines[j], j)]

\* the fuzzy strategy on the window starting at line i
FuzzyReplace(working, normalizedOld, normalizedNew, i) ==
    LET oldLines       == SplitBy(normalizedOld, LF)
        contentLines   == SplitBy(working, LF)
        originalIndent == LeadingWhitespace(contentLines[i])
        newLines       == NewLines(normalizedNew, oldLines, originalIndent)
    IN  JoinBy(Splice(contentLines, i, Len(oldLines), newLines), LF)

\* WorkingContent with every edit matched against the file as read
WorkingContentOriginal(original, modified) == original

\* the text the loop body matches an edit against
WorkingContent(original, modified) == modified

\* the loop body for one edit: which strategy applied, and the new working
\* content; how = "none" is the throw of line 90
EditOutcome(working, edit) ==
    LET normalizedOld == NormalizeLineEndings(edit.oldText)
        normalizedNew == NormalizeLineEndings(edit.newText)
    IN  IF Includes(working, normalizedOld)
        THEN [how |-> "exact",
              content |-> ExactReplace(working, normalizedOld, normalizedNew)]
        ELSE LET i == FirstWindow(SplitBy(working, LF), SplitBy(normalizedOld, LF))
             IN  IF i # 0
                 THEN [how |-> "fuzzy",
                       content |-> FuzzyReplace(working, normalizedOld, normalizedNew, i)]
                 ELSE [how |-> "none", content |-> working]

-----------------------------------------------------------------------------
(* The diff and its fence (file-editor.ts:16-29, 94-102).                  *)

\* longest common prefix of two line lists, and of their reversals
RECURSIVE CommonPrefixLen(_, _)
CommonPrefixLen(a, b) ==
    IF a = <<>> \/ b = <<>> \/ Head(a) # Head(b) THEN 0
    ELSE 1 + CommonPrefixLen(Tail(a), Tail(b))

Reverse(a) == [i \in 1..Len(a) |-> a[Len(a) + 1 - i]]

\* every line of lines behind the marker tag, each ended by a line feed
RECURSIVE Marked(_, _)
Marked(tag, lines) ==
    IF lines = <<>> THEN <<>>
    ELSE <<tag>> \o Head(lines) \o <<LF>> \o Marked(tag, Tail(lines))

\* createTwoFilesPatch(filepath, filepath, a, b, 'original', 'modified') of the
\* diff package, line by line: the header, and when the texts differ one hunk of
\* the unchanged lines around the removed and the added ones. A header word is
\* one token of the text.
CreateTwoFilesPatch(filepath, a, b) ==
    LET la  == SplitBy(a, LF)
        lb  == SplitBy(b, LF)
        pre == CommonPrefixLen(la, lb)
        ra  == SubSeq(la, pre + 1, Len(la))
        rb  == SubSeq(lb, pre + 1, Len(lb))
        suf == CommonPrefixLen(Reverse(ra), Reverse(rb))
        header == <<"Index: ">> \o filepath \o <<LF, "=======", LF>>
                  \o <<"--- ">> \o filepath \o <<Tab, "original", LF>>
                  \o <<"+++ ">> \o filepath \o <<Tab, "modified", LF>>
    IN  IF a = b THEN header
        ELSE header \o <<"@@", LF>>
             \o Marked(Space, SubSeq(la, 1, pre))
             \o Marked("-", SubSeq(ra, 1, Len(ra) - suf))
             \o Marked("+", SubSeq(rb, 1, Len(rb) - suf))
             \o Marked(Space, SubSeq(ra, Len(ra) - suf + 1, Len(ra)))

CreateUnifiedDiff(originalContent, newContent, filepath) ==
    CreateTwoFilesPatch(filepath,
                        NormalizeLineEndings(originalContent),
                        NormalizeLineEndings(newContent))

\* NumBackticks with the while loop lost: the fence is always three wide
NumBackticksFixed(diff) == 3

\* let numBackticks = 3; while (diff.includes(fence of numBackticks)) numBackticks++
NumBackticks(diff) ==
    CHOOSE n \in 3..(Len(diff) + 3) :
        /\ ~Includes(diff, Repeat(Backtick, n))
        /\ \A m \in 3..(n - 1) : Includes(diff, Repeat(Backtick, m))

FormattedDiff(diff) ==
    LET fence == Repeat(Backtick, NumBackticks(diff))
    IN  fence \o <<"diff", LF>> \o diff \o fence \o <<LF, LF>>

-----------------------------------------------------------------------------
(* FileEditor.applyFileEdits as a call in flight (file-editor.ts:31-109).  *)

\* the server and the file the edit calls of the model run against: one
\* allowed directory holding one regular file
EditRoots    == << <<"/", "a">> >>
EditFile     == <<"/", "a", "/", "a">>
MissingFile  == <<"/", "a", "/", "a", "a">>
OutsideFile  == <<"/", "~">>
EditPaths    == {EditFile, MissingFile, OutsideFile}

\* fs.realpath in that filesystem: no symbolic links
RealpathOf(p) ==
    IF p \in {EditFile, PathDirname(EditFile), <<Slash>>}
    THEN Resolved(p)
    ELSE Rejected("ENOENT")

\* validatePath as one function of the path and of what fs.realpath answers
ValidatePathWith(requested, dirs, realAnswer, parentAnswer) ==
    LET abs == AbsoluteOf(requested)
    IN  IF ~IsAllowedPath(NormalizePath(abs), dirs)
        THEN Rejected("AccessDeniedPath")
        ELSE IF realAnswer.ok THEN CheckRealPath(realAnswer.path, dirs)
        ELSE IF MessageIncludesENOENT(realAnswer.error)
        THEN ParentFallback(abs, parentAnswer, realAnswer.error)
        ELSE Rejected(realAnswer.error)

\* FileWritten with the content as read written back
FileWrittenAsRead(read, working) == read

\* writeFile(validPath, modifiedContent, 'utf-8'): the text written
FileWritten(read, working) == working

\* ShouldWrite with the dryRun test lost: the file is written in a dry run too
ShouldWriteAlways(dry) == TRUE

\* if (!dryRun)
ShouldWrite(dry) == ~dry

\* MatchFound with the throw lost: an edit nothing matches is skipped
MatchFoundAlways(outcome) == TRUE

\* matchFound, as tested by if (!matchFound) throw
MatchFound(outcome) == outcome # "none"

\* await this.pathUtils.validatePath(filePath, this.allowedDirectories)
AFEValidate ==
    /\ pc = "validate"
    /\ LET abs == AbsoluteOf(filePath)
           v   == ValidatePathWith(filePath, allowedDirectories,
                                   RealpathOf(abs), RealpathOf(PathDirname(abs)))
       IN  IF v.ok
           THEN /\ validPath' = v.path
                /\ pc' = "read"
                /\ result' = result
           ELSE /\ validPath' = validPath
                /\ pc' = "done"
                /\ result' = Thrown(v.error, <<>>)
    /\ UNCHANGED <<disk, disk0, filePath, edits, dryRun, content, modifiedContent,
                   k, prev, how, writeCalls>>
    /\ UNCHANGED <<pathVars, serverVars, callB>>

\* await this.deps.fs.readFile(validPath, 'utf-8'), normalized
AFERead ==
    /\ pc = "read"
    /\ IF validPath = EditFile
       THEN /\ content' = NormalizeLineEndings(disk)
            /\ modifiedContent' = content'
            /\ pc' = "loop"
            /\ result' = result
       ELSE /\ pc' = "done"
            /\ result' = Thrown("ENOENT", <<>>)
            /\ UNCHANGED <<content, modifiedContent>>
    /\ UNCHANGED <<disk, disk0, filePath, edits, dryRun, validPath, k, prev, how,
                   writeCalls>>
    /\ UNCHANGED <<pathVars, serverVars, callB>>

\* one iteration of for (const edit of edits)
AFEEditStep ==
    /\ pc = "loop"
    /\ k < Len(edits)
    /\ LET edit == edits[k + 1]
           o    == EditOutcome(WorkingContent(content, modifiedContent), edit)
       IN  /\ how' = o.how
           /\ IF ~MatchFound(o.how)
              THEN /\ pc' = "done"
                   /\ result' = Thrown("EditNotApplicable", edit.oldText)
                   /\ modifiedContent' = modifiedContent
              ELSE /\ pc' = "loop"
                   /\ result' = result
                   /\ modifiedContent' = o.content
    /\ prev' = modifiedContent
    /\ k' = k + 1
    /\ UNCHANGED <<disk, disk0, filePath, edits, dryRun, validPath, content, writeCalls>>
    /\ UNCHANGED <<pathVars, serverVars, callB>>

\* after the loop: the diff, its fence, the write unless dryRun, the return
AFEFinish ==
    /\ pc = "loop"
    /\ k = Len(edits)
    /\ LET diff == CreateUnifiedDiff(content, modifiedContent, filePath)
       IN  result' = Returned(FormattedDiff(diff))
    /\ IF ShouldWrite(dryRun)
       THEN /\ disk' = FileWritten(content, modifiedContent)
            /\ writeCalls' = writeCalls + 1
       ELSE UNCHANGED <<disk, writeCalls>>
    /\ pc' = "done"
    /\ UNCHANGED <<disk0, filePath, edits, dryRun, validPath, content, modifiedContent,
                   k, prev, how>>
    /\ UNCHANGED <<pathVars, serverVars, callB>>

EditList(texts, n) ==
    UNION {[1..m -> [oldText : texts, newText : texts]] : m \in 0..n}

\* the texts of the calls with several edits
SeqTexts == { <<>>, <<"x">>, <<"y">>, <<Space, "x">> }

EditCallStarts ==
    /\ disk0 = disk
    /\ content = <<>>
    /\ modifiedContent = <<>>
    /\ k = 0
    /\ prev = <<>>
    /\ how = "none"
    /\ result = Pending
    /\ writeCalls = 0
    /\ allowedDirectories = EditRoots
    /\ PathIdle
    /\ ServerIdle
    /\ SecondCallIdle

Init ==
    /\ disk \in SeqTexts
    /\ filePath \in EditPaths
    /\ edits \in EditList(SeqTexts, MaxEdits)
    /\ dryRun \in BOOLEAN
    /\ pc = "validate"
    /\ validPath = <<>>
    /\ EditCallStarts

Next ==
    \/ AFEValidate
    \/ AFERead
    \/ AFEEditStep
    \/ AFEFinish

Spec == Init /\ [][Next]_vars

\* the alphabets of the single-edit inputs: replacement patterns, line endings,
\* indentation
DollarAlphabet  == {"x", Dollar, Ampersand}
LineEndAlphabet == {"x", CR, LF}
LineEndsOnly    == {CR, LF}
IndentAlphabet  == {"x", Space, LF}
TextAlphabets   == {DollarAlphabet, LineEndAlphabet, IndentAlphabet}

\* one edit applied to one file: the call right after its path was validated
InitApply ==
    /\ \E texts \in {Strings(alphabet, MaxTextLen) : alphabet \in TextAlphabets}
                   \cup {Strings(LineEndsOnly, MaxLineEndLen)} :
         /\ disk \in texts
         /\ edits \in {<<e>> : e \in [oldText : texts, newText : texts]}
    /\ filePath = EditFile
    /\ dryRun = TRUE
    /\ pc = "read"
    /\ validPath = EditFile
    /\ EditCallStarts

NextApply ==
    \/ AFERead
    \/ AFEEditStep

SpecApply == InitApply /\ [][NextApply]_vars

-----------------------------------------------------------------------------
(* Claims about applyFileEdits.                                            *)

\* the working content after going through es from w, stopping at an edit
\* neither strategy matches
RECURSIVE ContentAfter(_, _)
ContentAfter(w, es) ==
    IF es = <<>> THEN w
    ELSE LET o == EditOutcome(w, Head(es))
         IN  IF o.how = "none" THEN w ELSE ContentAfter(o.content, Tail(es))

\* the position in es of the first edit neither strategy matches against the
\* working content at that point (0 when every edit matches)
RECURSIVE FirstUnmatched(_, _)
FirstUnmatched(w, es) ==
    IF es = <<>> THEN 0
    ELSE LET o == EditOutcome(w, Head(es))
         IN  IF o.how = "none" THEN 1
             ELSE LET r == FirstUnmatched(o.content, Tail(es))
                  IN  IF r = 0 THEN 0 ELSE r + 1

Matches(w, edit) == EditOutcome(w, edit).how # "none"

\* C3 -- All-or-nothing write: when some instruction's oldText is matched by
\* neither strategy against the working content at that point, the call throws
\* an error quoting that oldText, never calls writeFile, and the file on disk
\* stays as it was, however many earlier instructions matched.
C3_AllOrNothing ==
    LET u == FirstUnmatched(NormalizeLineEndings(disk0), edits)
    IN  (filePath = EditFile /\ u # 0) =>
          /\ writeCalls = 0
          /\ disk = disk0
          /\ result.status # "returned"
          /\ pc = "done" => result = Thrown("EditNotApplicable", edits[u].oldText)

C3_Witness ==
    /\ pc = "done"
    /\ Len(edits) = 2
    /\ FirstUnmatched(NormalizeLineEndings(disk0), edits) = 2
    /\ modifiedContent # content
    /\ ~dryRun
    /\ result.status = "thrown"

\* C4 -- Dry-run non-persistence: with dryRun the call never calls writeFile
\* and leaves the file on disk unchanged, and what it returns is the fenced diff
\* of the original and the final working content, the same value a call without
\* dryRun returns for the same file content and edits.
C4_DryRunNonPersistence ==
    /\ dryRun => (writeCalls = 0 /\ disk = disk0)
    /\ result.status = "returned" =>
         LET original == NormalizeLineEndings(disk0)
         IN  result.diff =
               FormattedDiff(CreateUnifiedDiff(original, ContentAfter(original, edits), filePath))
    /\ (pc = "done" /\ filePath = EditFile
          /\ FirstUnmatched(NormalizeLineEndings(disk0), edits) = 0)
         => result.status = "returned"

C4_Witness ==
    /\ pc = "done"
    /\ dryRun
    /\ result.status = "returned"
    /\ modifiedContent # content
    /\ disk = disk0
    /\ disk # modifiedContent

\* C6 -- Exact-match replacement: when the normalized oldText occurs verbatim
\* in the working content, the new working content is the text before its first
\* occurrence, then newText character for character, then the text after it.
C6_ExactReplacementLiteral ==
    (k = 1 /\ how = "exact") =>
        LET normalizedOld == NormalizeLineEndings(edits[1].oldText)
            normalizedNew == NormalizeLineEndings(edits[1].newText)
            at == IndexOf(prev, normalizedOld)
        IN  modifiedContent =
              SubSeq(prev, 1, at - 1) \o normalizedNew
              \o SubSeq(prev, at + Len(normalizedOld), Len(prev))

\* C7 -- Sequential application: instruction k is matched against the working
\* content produced by instructions 1..k-1, not against the file as read; an
\* instruction whose oldText only appears in text an earlier instruction
\* introduced matches, one whose oldText an earlier instruction removed does not.
C7_SequentialApplication ==
    (k >= 1 /\ pc \in {"loop", "done"}) =>
        LET original == NormalizeLineEndings(disk0)
            w == ContentAfter(original, SubSeq(edits, 1, k - 1))
            o == EditOutcome(w, edits[k])
        IN  /\ prev = w
            /\ how = o.how
            /\ modifiedContent = o.content
            /\ (k = 2 /\ ~Matches(original, edits[2]) /\ Matches(w, edits[2]))
                 => how # "none"
            /\ (k = 2 /\ Matches(original, edits[2]) /\ ~Matches(w, edits[2]))
                 => (how = "none" /\ result.status = "thrown")

C7_Witness ==
    /\ k = 2
    /\ how = "exact"
    /\ ~Matches(content, edits[2])
    /\ ~Includes(content, NormalizeLineEndings(edits[2].oldText))
    /\ Includes(NormalizeLineEndings(edits[1].newText), NormalizeLineEndings(edits[2].oldText))
    /\ edits[2].oldText # <<>>

\* a text brought to CRLF form (every LF not already behind a CR becomes
\* CR LF) and to LF form (every CR LF becomes LF)
RECURSIVE ToCRLFAfter(_, _)
ToCRLFAfter(t, afterCR) ==
    IF t = <<>> THEN <<>>
    ELSE IF t[1] = LF /\ ~afterCR THEN <<CR, LF>> \o ToCRLFAfter(Tail(t), FALSE)
    ELSE <<t[1]>> \o ToCRLFAfter(Tail(t), t[1] = CR)

ToCRLF(t) == ToCRLFAfter(t, FALSE)

RECURSIVE ToLF(_)
ToLF(t) ==
    IF t = <<>> THEN <<>>
    ELSE IF Len(t) >= 2 /\ t[1] = CR /\ t[2] = LF THEN <<LF>> \o ToLF(SubSeq(t, 3, Len(t)))
    ELSE <<t[1]>> \o ToLF(Tail(t))

\* whether one edit matches the file content d, and the working content it
\* leaves
OutcomeOn(d, old, new) ==
    LET o == EditOutcome(NormalizeLineEndings(d), [oldText |-> old, newText |-> new])
    IN  [matched |-> o.how # "none", content |-> o.content]

\* the same of the call in flight, once its one edit went through the loop
OutcomeReached == [matched |-> how # "none", content |-> modifiedContent]

\* no stray CR: every CR is immediately followed by LF
HasNoCR(t)        == \A i \in 1..Len(t) : t[i] # CR
CROnlyBeforeLF(t) == \A i \in 1..Len(t) : t[i] = CR => (i < Len(t) /\ t[i + 1] = LF)

\* a text and its CRLF and LF forms: of any text, and of a text without stray CR
AnyForms(t)  == {t, ToCRLF(t), ToLF(t)}
SameForms(t) == IF CROnlyBeforeLF(t) THEN AnyForms(t) ELSE {t}

\* C8 (as claimed) -- Line-ending equivalence: for every file content and
\* every edit, replacing LF by CRLF or CRLF by LF in oldText and newText, or in
\* the file content, changes neither whether the edit matches nor the final
\* working content.
C8_LineEndingEquivalence ==
    k = 1 =>
        \A d \in AnyForms(disk0), o \in AnyForms(edits[1].oldText),
           n \in AnyForms(edits[1].newText) :
            OutcomeOn(d, o, n) = OutcomeReached

\* C8 (amended) -- Line-ending equivalence of texts without stray CR: in a
\* text in which every CR is immediately followed by LF, be it the file content,
\* oldText or newText, replacing every LF not already behind a CR by CRLF, or
\* every CRLF by LF, changes neither whether the edit matches nor the final
\* working content.
C8_LineEndingEquivalenceOfForms ==
    k = 1 =>
        \A d \in SameForms(disk0), o \in SameForms(edits[1].oldText),
           n \in SameForms(edits[1].newText) :
            OutcomeOn(d, o, n) = OutcomeReached

\* a file with a CRLF line ending patched by an instruction written with LF
C8_Witness ==
    /\ k = 1
    /\ how = "exact"
    /\ Includes(disk0, <<CR, LF>>)
    /\ CROnlyBeforeLF(disk0)
    /\ HasNoCR(edits[1].oldText)
    /\ Includes(edits[1].oldText, <<LF>>)
    /\ modifiedContent # content

\* C9 -- Fuzzy-match first-line indentation: when the fuzzy strategy applies an
\* instruction, the first line of the replacement is the leading whitespace of
\* the first content line of the matched window followed by newText's first
\* line without its own leading whitespace.
C9_FuzzyFirstLineIndent ==
    (k = 1 /\ how = "fuzzy") =>
        LET contentLines == SplitBy(prev, LF)
            oldLines     == SplitBy(NormalizeLineEndings(edits[1].oldText), LF)
            newFirst     == SplitBy(NormalizeLineEndings(edits[1].newText), LF)[1]
            w            == FirstWindow(contentLines, oldLines)
            indent       == LeadingWhitespace(contentLines[w])
            line         == SplitBy(modifiedContent, LF)[w]
        IN  /\ line = indent \o TrimStart(newFirst)
            /\ LeadingWhitespace(line) = indent

C9_Witness ==
    /\ k = 1
    /\ how = "fuzzy"
    /\ LeadingWhitespace(SplitBy(prev, LF)[1]) = <<Space>>
    /\ LeadingWhitespace(edits[1].oldText) = <<>>
    /\ LeadingWhitespace(edits[1].newText) = <<>>
    /\ edits[1].newText # <<>>
    /\ SplitBy(modifiedContent, LF)[1] = <<Space>> \o edits[1].newText

\* C10 -- Exact-match edit idempotence: the single edit whose oldText and
\* newText both are the whole file content leaves the working content as it was
\* read (the diff has no changed line).
C10_WholeContentIdempotence ==
    (k = 1 /\ edits[1].oldText = disk0 /\ edits[1].newText = disk0) =>
        (how = "exact" /\ modifiedContent = content)

\* where an entry created at the not yet existing path abs really lies: its
\* last name under the real location of its parent directory
RealLocation(abs, parentReal) ==
    LET names == SplitBy(abs, Slash)
    IN  PathJoin(parentReal, names[Len(names)])

\* C15 -- No file operation outside the allowed roots via a not-yet-existing
\* path: whenever validatePath returns a path that does not exist (the parent
\* fallback), the real location of its parent directory is such that what a
\* write_file, create_directory or move_file creates at the returned path
\* really lies within some allowed root (stated for a parent directory other
\* than the filesystem root, which is no symbolic link).
C15_NewPathWithinRoots ==
    (/\ VPReturned
     /\ ~realOutcome.ok
     /\ parentOutcome.ok
     /\ PathDirname(absolute) # <<Slash>>) =>
        IsWithinSomeRoot(RealLocation(absolute, parentOutcome.path),
                         allowedDirectories)

\* C16 -- Allow-list check precedes any filesystem access: when the normalized
\* requested path is outside every allowed root, validatePath raises the
\* 'Access denied' error and has issued no filesystem query, on the path or on
\* its parent.
C16_CheckBeforeFsAccess ==
    (/\ vpc \in {"realpath", "parent", "done"}
     /\ ~IsWithinSomeRoot(NormalizePath(absolute), allowedDirectories))
        => /\ fsCalls = <<>>
           /\ vpc = "done"
           /\ vresult = Rejected("AccessDeniedPath")

-----------------------------------------------------------------------------
(* validatePath on paths whose names may hold the letters ENOENT           *)
(* (file-editor.ts:154-173 tests error.message.includes('ENOENT')).        *)

\* a name made of the letters ENOENT is one token of a path
NamedAlphabet == {Slash, "a", "ENOENT"}
NamedPaths    == Strings(NamedAlphabet, MaxNameLen)

\* the message of the error fs.realpath(path) rejects with, by error code
FsErrorFor(code, path) ==
    IF code # "ENOENT" /\ Includes(path, <<"ENOENT">>)
    THEN EaccesQuotingENOENT
    ELSE code

RealpathAnswersFor(path) ==
    {Resolved(p) : p \in RealPaths} \cup {Rejected(FsErrorFor(code, path)) : code \in FsErrors}

NextPathNames ==
    \/ \E p \in NamedPaths : VPCall(p)
    \/ \E answer \in RealpathAnswersFor(absolute) : VPRealpath(answer)
    \/ \E answer \in RealpathAnswersFor(PathDirname(absolute)) : VPParent(answer)

SpecPathNames == InitPath /\ [][NextPathNames]_vars

\* C17 -- Error propagation in validatePath: (i) when realpath of the path
\* fails with a not-found error and realpath of the parent fails too, the error
\* raised is the not-found error of the path; (ii) when realpath of the path
\* fails with an error that is not a not-found error, that error is raised and
\* no path is returned; (iii) when the real path fails the allow-list check,
\* the 'Access denied' error is raised and no path is returned.
C17_ErrorPropagation ==
    (vpc = "done") =>
        /\ (~realOutcome.ok /\ realOutcome.error = "ENOENT"
            /\ ~parentOutcome.ok /\ parentOutcome.error # NoError)
               => vresult = Rejected(realOutcome.error)
        /\ (~realOutcome.ok /\ realOutcome.error \notin {NoError, "ENOENT"})
               => vresult = Rejected(realOutcome.error)
        /\ (realOutcome.ok
            /\ ~IsAllowedPath(NormalizePath(realOutcome.path), allowedDirectories))
               => vresult = Rejected("AccessDeniedSymlink")

-----------------------------------------------------------------------------
(* The fence of the returned diff (file-editor.ts:95-108).                 *)

FenceAlphabet == {"x", Backtick}

\* one edit over texts holding runs of grave accents, up to the return
InitFence ==
    /\ disk \in Strings(FenceAlphabet, MaxFenceLen)
    /\ edits \in {<<e>> : e \in [oldText : Strings(FenceAlphabet, MaxFenceLen),
                                  newText : Strings(FenceAlphabet, MaxFenceLen)]}
    /\ filePath = EditFile
    /\ dryRun = TRUE
    /\ pc = "read"
    /\ validPath = EditFile
    /\ EditCallStarts

NextFence ==
    \/ AFERead
    \/ AFEEditStep
    \/ AFEFinish

SpecFence == InitFence /\ [][NextFence]_vars

\* the number of grave accents text starts with
RECURSIVE LeadingBackticks(_)
LeadingBackticks(text) ==
    IF text = <<>> \/ Head(text) # Backtick THEN 0
    ELSE 1 + LeadingBackticks(Tail(text))

\* C11 -- Diff fencing: the returned string is the diff between an opening and
\* a closing run of n grave accents (the opening one followed by the word diff
\* and a line feed, the closing one by two line feeds), where n is at least 3
\* and the smallest such number for which the diff holds no run of n grave
\* accents; so the diff never holds the fence that delimits it.
C11_DiffFencing ==
    (pc = "done" /\ result.status = "returned") =>
        LET diff  == CreateUnifiedDiff(content, modifiedContent, filePath)
            n     == LeadingBackticks(result.diff)
            fence == Repeat(Backtick, n)
        IN  /\ n >= 3
            /\ result.diff = fence \o <<"diff", LF>> \o diff \o fence \o <<LF, LF>>
            /\ ~Includes(diff, fence)
            /\ \A m \in 3..(n - 1) : Includes(diff, Repeat(Backtick, m))

C11_Witness ==
    /\ pc = "done"
    /\ result.status = "returned"
    /\ Includes(CreateUnifiedDiff(content, modifiedContent, filePath),
                Repeat(Backtick, 3))
    /\ LeadingBackticks(result.diff) = 4

-----------------------------------------------------------------------------
(* FilesystemServer.handleCallTool (server.ts:188-376) serving one request *)
(* over a small filesystem: the allowed directory /a holding the regular   *)
(* file /a/a, the name /a/aa (absent, a file or a directory) and the       *)
(* symbolic link /a/~ to the file /~ outside the allowed directory.        *)

LinkFile    == <<"/", "a", "/", "~">>
ServerPaths == {EditFile, MissingFile, LinkFile, OutsideFile}
StoredPaths == {EditFile, MissingFile, OutsideFile}

Absent            == [kind |-> "absent", data |-> <<>>]
Directory         == [kind |-> "dir",    data |-> <<>>]
RegularFile(data) == [kind |-> "file",   data |-> data]

\* fs.realpath in the filesystem fs
ServerRealpath(fs, p) ==
    IF p \in {<<Slash>>, PathDirname(EditFile)} THEN Resolved(p)
    ELSE IF p = LinkFile THEN Resolved(OutsideFile)
    ELSE IF p \in DOMAIN fs /\ fs[p].kind # "absent" THEN Resolved(p)
    ELSE Rejected("ENOENT")

\* this.pathUtils.validatePath(p, this.allowedDirectories) in the filesystem fs
ServerValidate(fs, p) ==
    LET abs == AbsoluteOf(p)
    IN  ValidatePathWith(p, EditRoots, ServerRealpath(fs, abs),
                         ServerRealpath(fs, PathDirname(abs)))

\* what an fs call answers: a value or an error, and the filesystem it leaves
FsResult(fs, text)   == [ok |-> TRUE,  error |-> NoError, files |-> fs, text |-> text]
FsFailure(fs, error) == [ok |-> FALSE, error |-> error,   files |-> fs, text |-> <<>>]

ReadFile(fs, p) ==
    IF fs[p].kind = "file" THEN FsResult(fs, fs[p].data)
    ELSE IF fs[p].kind = "dir" THEN FsFailure(fs, "EISDIR")
    ELSE FsFailure(fs, "ENOENT")

WriteFile(fs, p, data) ==
    IF fs[p].kind = "dir" THEN FsFailure(fs, "EISDIR")
    ELSE FsResult([fs EXCEPT ![p] = RegularFile(data)], <<>>)

\* fs.mkdir(p, {recursive: true})
Mkdir(fs, p) ==
    IF fs[p].kind = "file" THEN FsFailure(fs, "EEXIST")
    ELSE FsResult([fs EXCEPT ![p] = Directory], <<>>)

Readdir(fs, p) ==
    IF fs[p].kind = "dir" THEN FsResult(fs, <<>>)
    ELSE IF fs[p].kind = "file" THEN FsFailure(fs, "ENOTDIR")
    ELSE FsFailure(fs, "ENOENT")

Stat(fs, p) ==
    IF fs[p].kind = "absent" THEN FsFailure(fs, "ENOENT")
    ELSE FsResult(fs, <<fs[p].kind>>)

\* fs.rename(from, to), the rename of the operating system: an existing
\* destination of the same kind is replaced
Rename(fs, from, to) ==
    IF fs[from].kind = "absent" THEN FsFailure(fs, "ENOENT")
    ELSE IF from = to THEN FsResult(fs, <<>>)
    ELSE IF fs[from].kind = "file" /\ fs[to].kind = "dir" THEN FsFailure(fs, "EISDIR")
    ELSE IF fs[from].kind = "dir" /\ fs[to].kind = "file" THEN FsFailure(fs, "ENOTDIR")
    ELSE FsResult([fs EXCEPT ![to] = fs[from], ![from] = Absent], <<>>)

SinglePathTools == {"read_file", "write_file", "create_directory",
                    "list_directory", "get_file_info"}
ToolNames       == SinglePathTools \cup {"move_file", "read_multiple_files"}
WrittenContent  == <<"w">>

\* the fs call a tool makes once its paths are validated
FsOperation(name, fs, paths) ==
    CASE name = "read_file"        -> ReadFile(fs, paths[1])
      [] name = "write_file"       -> WriteFile(fs, paths[1], WrittenContent)
      [] name = "create_directory" -> Mkdir(fs, paths[1])
      [] name = "list_directory"   -> Readdir(fs, paths[1])
      [] name = "get_file_info"    -> Stat(fs, paths[1])
      [] name = "move_file"        -> Rename(fs, paths[1], paths[2])

FsCallOf(name) ==
    CASE name = "read_file"        -> "readFile"
      [] name = "write_file"       -> "writeFile"
      [] name = "create_directory" -> "mkdir"
      [] name = "list_directory"   -> "readdir"
      [] name = "get_file_info"    -> "stat"
      [] name = "move_file"        -> "rename"

\* the text of a successful response
SuccessText(req, answer) ==
    CASE req.name = "write_file"       -> <<"Successfully wrote to ">> \o req.paths[1]
      [] req.name = "create_directory" -> <<"Successfully created directory ">> \o req.paths[1]
      [] req.name = "move_file"        -> <<"Successfully moved ">> \o req.paths[1]
                                          \o <<" to ">> \o req.paths[2]
      [] OTHER                         -> answer

Success(text) == [isError |-> FALSE, text |-> text]

\* ErrorResponse with the isError flag lost
ErrorResponseUnflagged(message) == [isError |-> FALSE, text |-> <<"Error: ", message>>]

\* the catch of handleCallTool
ErrorResponse(message) == [isError |-> TRUE, text |-> <<"Error: ", message>>]

\* one element of the results array of read_multiple_files
ContentEntry(path, text)  == path \o <<":", LF>> \o text \o <<LF>>
ErrorEntry(path, message) == path \o <<": Error - ", message>>
NoEntry == <<>>

\* ResultSlot with the results pushed as the callbacks complete
ResultSlotByCompletion(i, nth) == nth

\* Promise.all(paths.map(...)): the value of the callback of paths[i] is element
\* i of the array, whichever callback completes first
ResultSlot(i, nth) == i

\* switch (name) and safeParse(args)
SrvDispatch ==
    /\ spc = "parse"
    /\ IF request.name \notin ToolNames
       THEN /\ response' = ErrorResponse("UnknownTool")
            /\ spc' = "done"
            /\ UNCHANGED <<callbacks, batch>>
       ELSE IF ~request.wellFormed
       THEN /\ response' = ErrorResponse("InvalidArguments")
            /\ spc' = "done"
            /\ UNCHANGED <<callbacks, batch>>
       ELSE IF request.name = "read_multiple_files"
       THEN /\ callbacks' = [i \in 1..Len(request.paths) |->
                                [pc |-> "validate", validPath |-> <<>>]]
            /\ batch' = [i \in 1..Len(request.paths) |-> NoEntry]
            /\ spc' = "batch"
            /\ response' = response
       ELSE /\ spc' = "validate"
            /\ UNCHANGED <<response, callbacks, batch>>
    /\ UNCHANGED <<files, files0, request, validPaths, ops, finished>>
    /\ UNCHANGED <<pathVars, editVars, callB>>

\* await this.pathUtils.validatePath(...) of the next path argument
SrvValidate ==
    /\ spc = "validate"
    /\ LET v == ServerValidate(files, request.paths[Len(validPaths) + 1])
       IN  IF v.ok
           THEN /\ validPaths' = Append(validPaths, v.path)
                /\ spc' = IF Len(validPaths') < Len(request.paths)
                          THEN "validate" ELSE "operate"
                /\ response' = response
           ELSE /\ response' = ErrorResponse(v.error)
                /\ spc' = "done"
                /\ validPaths' = validPaths
    /\ UNCHANGED <<files, files0, request, ops, callbacks, batch, finished>>
    /\ UNCHANGED <<pathVars, editVars, callB>>

\* the fs call of the tool and the return
SrvOperate ==
    /\ spc = "operate"
    /\ LET o == FsOperation(request.name, files, validPaths)
       IN  /\ files' = o.files
           /\ response' = IF o.ok THEN Success(SuccessText(request, o.text))
                          ELSE ErrorResponse(o.error)
    /\ ops' = Append(ops, [op |-> FsCallOf(request.name), path |-> validPaths[1]])
    /\ spc' = "done"
    /\ UNCHANGED <<files0, request, validPaths, callbacks, batch, finished>>
    /\ UNCHANGED <<pathVars, editVars, callB>>

\* the callback of paths[i] returns entry
Settle(i, entry) ==
    /\ batch' = [batch EXCEPT ![ResultSlot(i, Len(finished) + 1)] = entry]
    /\ finished' = Append(finished, i)

\* read_multiple_files: validatePath of paths[i] answers
CallbackValidate(i) ==
    /\ spc = "batch"
    /\ i \in DOMAIN callbacks
    /\ callbacks[i].pc = "validate"
    /\ LET v == ServerValidate(files, request.paths[i])
       IN  IF v.ok
           THEN /\ callbacks' = [callbacks EXCEPT ![i] = [pc |-> "read", validPath |-> v.path]]
                /\ UNCHANGED <<batch, finished>>
           ELSE /\ callbacks' = [callbacks EXCEPT ![i].pc = "done"]
                /\ Settle(i, ErrorEntry(request.paths[i], v.error))
    /\ UNCHANGED <<files, files0, request, spc, validPaths, response, ops>>
    /\ UNCHANGED <<pathVars, editVars, callB>>

\* read_multiple_files: readFile of paths[i] answers
CallbackRead(i) ==
    /\ spc = "batch"
    /\ i \in DOMAIN callbacks
    /\ callbacks[i].pc = "read"
    /\ LET o == ReadFile(files, callbacks[i].validPath)
       IN  Settle(i, IF o.ok THEN ContentEntry(request.paths[i], o.text)
                     ELSE ErrorEntry(request.paths[i], o.error))
    /\ callbacks' = [callbacks EXCEPT ![i].pc = "done"]
    /\ ops' = Append(ops, [op |-> "readFile", path |-> callbacks[i].validPath])
    /\ UNCHANGED <<files, files0, request, spc, validPaths, response>>
    /\ UNCHANGED <<pathVars, editVars, callB>>

\* read_multiple_files: Promise.all resolves, results.join
SrvJoin ==
    /\ spc = "batch"
    /\ \A i \in DOMAIN callbacks : callbacks[i].pc = "done"
    /\ response' = Success(JoinBy(batch, "\n---\n"))
    /\ spc' = "done"
    /\ UNCHANGED <<files, files0, request, validPaths, ops, callbacks, batch, finished>>
    /\ UNCHANGED <<pathVars, editVars, callB>>

WellFormed(name, paths) == [name |-> name, paths |-> paths, wellFormed |-> TRUE]

Requests ==
    {WellFormed(name, <<p>>) : name \in SinglePathTools, p \in ServerPaths}
    \cup {WellFormed("move_file", <<p, q>>) : p \in ServerPaths, q \in ServerPaths}
    \cup {WellFormed("read_multiple_files", ps) :
            ps \in UNION {[1..n -> ServerPaths] : n \in 0..MaxBatch}}
    \cup {[name |-> name, paths |-> <<>>, wellFormed |-> FALSE] : name \in ToolNames}
    \cup {WellFormed("unknown_tool", <<>>)}

InitServer ==
    /\ files \in {[p \in StoredPaths |->
                     IF p = EditFile THEN RegularFile(<<"x">>)
                     ELSE IF p = OutsideFile THEN RegularFile(<<"s">>)
                     ELSE other] :
                  other \in {Absent, Directory, RegularFile(<<"y">>)}}
    /\ files0 = files
    /\ request \in Requests
    /\ spc = "parse"
    /\ validPaths = <<>>
    /\ response = NoResponse
    /\ ops = <<>>
    /\ callbacks = <<>>
    /\ batch = <<>>
    /\ finished = <<>>
    /\ allowedDirectories = EditRoots
    /\ PathIdle
    /\ EditIdle
    /\ SecondCallIdle

NextServer ==
    \/ SrvDispatch
    \/ SrvValidate
    \/ SrvOperate
    \/ \E i \in 1..MaxBatch : CallbackValidate(i)
    \/ \E i \in 1..MaxBatch : CallbackRead(i)
    \/ SrvJoin

SpecServer == InitServer /\ [][NextServer]_vars

\* the path named by the request exists when the request arrives
ExistsAtStart(p) == p = LinkFile \/ files0[p].kind # "absent"

\* C12 -- move_file refuses to overwrite: when the destination exists the
\* operation fails (the response has isError) and neither the source nor the
\* destination is changed.
C12_MoveRefusesOverwrite ==
    (/\ spc = "done"
     /\ request.name = "move_file"
     /\ request.wellFormed
     /\ request.paths[1] # request.paths[2]
     /\ ExistsAtStart(request.paths[2]))
        => (response.isError /\ files = files0)

\* what the callback of read_multiple_files is to return for path in the
\* filesystem fs
ExpectedEntry(fs, path) ==
    LET v == ServerValidate(fs, path)
    IN  IF ~v.ok THEN ErrorEntry(path, v.error)
        ELSE LET o == ReadFile(fs, v.path)
             IN  IF o.ok THEN ContentEntry(path, o.text)
                 ELSE ErrorEntry(path, o.error)

\* C13 -- Batch isolation: in read_multiple_files the failure of one path never
\* fails the call; the response is not an error and holds exactly one entry per
\* requested path, in the order requested whatever the order of completion, a
\* failed path as its path followed by ': Error - ' and the message.
C13_BatchIsolation ==
    (spc = "done" /\ request.name = "read_multiple_files" /\ request.wellFormed) =>
        /\ ~response.isError
        /\ Len(batch) = Len(request.paths)
        /\ \A i \in 1..Len(request.paths) :
               batch[i] = ExpectedEntry(files0, request.paths[i])
        /\ response.text = JoinBy([i \in 1..Len(request.paths) |->
                                      ExpectedEntry(files0, request.paths[i])],
                                  "\n---\n")

C13_Witness ==
    /\ spc = "done"
    /\ request.name = "read_multiple_files"
    /\ request.paths = <<LinkFile, EditFile>>
    /\ finished = <<2, 1>>
    /\ batch = <<ErrorEntry(LinkFile, "AccessDeniedSymlink"),
                 ContentEntry(EditFile, <<"x">>)>>
    /\ ~response.isError

\* the error that ends the handler of req in the filesystem fs: the tool name
\* or the arguments refused, the first path argument validatePath rejects, or
\* the failure of the fs call (NoError when the handler returns normally). A
\* well-formed read_multiple_files request never ends this way.
HandlerFailure(req, fs) ==
    IF req.name \notin ToolNames THEN "UnknownTool"
    ELSE IF ~req.wellFormed THEN "InvalidArguments"
    ELSE IF req.name = "read_multiple_files" THEN NoError
    ELSE LET vs  == [i \in 1..Len(req.paths) |-> ServerValidate(fs, req.paths[i])]
             bad == {i \in 1..Len(req.paths) : ~vs[i].ok}
         IN  IF bad # {}
             THEN vs[CHOOSE i \in bad : \A j \in bad : i <= j].error
             ELSE FsOperation(req.name, fs,
                              [i \in 1..Len(req.paths) |-> vs[i].path]).error

\* the errors the callbacks of a read_multiple_files request run into
CallbackFailures(req, fs) ==
    IF req.name = "read_multiple_files" /\ req.wellFormed
    THEN LET failure(path) ==
                 LET v == ServerValidate(fs, path)
                 IN  IF ~v.ok THEN v.error ELSE ReadFile(fs, v.path).error
         IN  {failure(req.paths[i]) : i \in 1..Len(req.paths)} \ {NoError}
    ELSE {}

-----------------------------------------------------------------------------
(* The fuzzy strategy on texts of several indented lines                   *)
(* (file-editor.ts:53-87).                                                 *)

IndentedLines == { <<"x">>, <<Space, "x">>, <<Space, Space, "x">> }
FileLines     == IndentedLines \cup { <<>>, <<"y">> }
ReplacingLines == { <<"z">>, <<Space, "z">>, <<Space, Space, "z">> }

\* the texts of counts lines drawn from lineSet
LinesText(lineSet, counts) ==
    {JoinBy(ls, LF) : ls \in UNION {[1..n -> lineSet] : n \in counts}}

\* one edit of one or two lines applied to a file of lines
InitLines ==
    /\ disk \in LinesText(FileLines, 1..MaxContentLines)
    /\ edits \in {<<e>> : e \in [oldText : LinesText(IndentedLines, {1, 2}),
                                  newText : LinesText(ReplacingLines, {1, 2})]}
    /\ filePath = EditFile
    /\ dryRun = TRUE
    /\ pc = "read"
    /\ validPath = EditFile
    /\ EditCallStarts

SpecLines == InitLines /\ [][NextApply]_vars

\* C18 -- Fuzzy match targets the lowest-index window: the fuzzy strategy is
\* tried only when oldText does not occur verbatim; of the windows of content
\* lines that match oldText line by line after trimming, the one with the
\* smallest start index is replaced; exactly that window's lines are removed,
\* and every content line before and after it is unchanged and in order.
C18_FuzzyLowestWindow ==
    (k = 1 /\ how = "fuzzy") =>
        LET contentLines == SplitBy(prev, LF)
            oldLines     == SplitBy(NormalizeLineEndings(edits[1].oldText), LF)
            newLines     == SplitBy(NormalizeLineEndings(edits[1].newText), LF)
            resultLines  == SplitBy(modifiedContent, LF)
            after        == Len(contentLines) - Len(oldLines)
        IN  /\ ~Includes(prev, NormalizeLineEndings(edits[1].oldText))
            /\ \E w \in 1..(after + 1) :
                 /\ IsMatch(contentLines, oldLines, w)
                 /\ \A v \in 1..(w - 1) : ~IsMatch(contentLines, oldLines, v)
                 /\ Len(resultLines) = after + Len(newLines)
                 /\ SubSeq(resultLines, 1, w - 1) = SubSeq(contentLines, 1, w - 1)
                 /\ SubSeq(resultLines, w + Len(newLines), Len(resultLines))
                      = SubSeq(contentLines, w + Len(oldLines), Len(contentLines))

C18_Witness ==
    /\ k = 1
    /\ how = "fuzzy"
    /\ LET contentLines == SplitBy(prev, LF)
           oldLines     == SplitBy(edits[1].oldText, LF)
       IN  /\ Len(contentLines) = 3
           /\ MatchingWindows(contentLines, oldLines) = {2, 3}
           /\ SplitBy(modifiedContent, LF)[1] = contentLines[1]
           /\ SplitBy(modifiedContent, LF)[2] # contentLines[2]
           /\ SplitBy(modifiedContent, LF)[3] = contentLines[3]

\* C19 -- Relative indentation of subsequent lines: in a fuzzy replacement, for
\* each line j > 0 of newText, if line j of oldText and line j of newText both
\* start with whitespace, the replacement line is the indentation captured from
\* the first line of the window, then (length of the new line's leading
\* whitespace minus that of the old line's, never less than zero) spaces, then
\* the new line without its leading whitespace; otherwise, also when oldText
\* has no line j, the new line is used as it is.
C19_RelativeIndentation ==
    (k = 1 /\ how = "fuzzy") =>
        LET contentLines == SplitBy(prev, LF)
            oldLines     == SplitBy(NormalizeLineEndings(edits[1].oldText), LF)
            newLines     == SplitBy(NormalizeLineEndings(edits[1].newText), LF)
            resultLines  == SplitBy(modifiedContent, LF)
            w            == FirstWindow(contentLines, oldLines)
            captured     == LeadingWhitespace(contentLines[w])
        IN  \A j \in 2..Len(newLines) :
               LET newIndent == LeadingWhitespace(newLines[j])
                   oldIndent == IF j <= Len(oldLines)
                                THEN LeadingWhitespace(oldLines[j]) ELSE <<>>
                   widen     == Len(newIndent) - Len(oldIndent)
               IN  IF newIndent # <<>> /\ oldIndent # <<>>
                   THEN resultLines[w + j - 1] =
                            captured
                            \o [n \in 1..(IF widen > 0 THEN widen ELSE 0) |-> Space]
                            \o SubSeq(newLines[j], Len(newIndent) + 1, Len(newLines[j]))
                   ELSE resultLines[w + j - 1] = newLines[j]

C19_Witness ==
    /\ k = 1
    /\ how = "fuzzy"
    /\ prev = <<Space, Space, "x", LF, Space, Space, "x">>
    /\ edits[1].oldText = <<"x", LF, Space, "x">>
    /\ edits[1].newText = <<"z", LF, Space, Space, "z">>
    /\ modifiedContent = <<Space, Space, "z", LF, Space, Space, Space, "z">>

-----------------------------------------------------------------------------
(* Two applyFileEdits calls on the same file, their awaits interleaved     *)
(* (file-editor.ts:31-109). The first call is the call of the edit         *)
(* variables, the second the record callB.                                 *)

aVars == <<disk0, filePath, edits, dryRun, pc, validPath, content,
           modifiedContent, k, prev, how, result>>

\* the second call: validatePath answers
BValidate ==
    /\ callB.pc = "validate"
    /\ LET abs == AbsoluteOf(filePath)
           v   == ValidatePathWith(filePath, allowedDirectories,
                                   RealpathOf(abs), RealpathOf(PathDirname(abs)))
       IN  callB' = IF v.ok THEN [callB EXCEPT !.pc = "read"]
                    ELSE [callB EXCEPT !.pc = "done", !.result = Thrown(v.error, <<>>)]
    /\ UNCHANGED <<disk, writeCalls, aVars, pathVars, serverVars>>

\* the second call: readFile answers
BRead ==
    /\ callB.pc = "read"
    /\ callB' = [callB EXCEPT !.content = NormalizeLineEndings(disk),
                              !.modifiedContent = NormalizeLineEndings(disk),
                              !.pc = "loop"]
    /\ UNCHANGED <<disk, writeCalls, aVars, pathVars, serverVars>>

\* the second call: one iteration of the edit loop
BEditStep ==
    /\ callB.pc = "loop"
    /\ callB.k < Len(callB.edits)
    /\ LET edit == callB.edits[callB.k + 1]
           o    == EditOutcome(WorkingContent(callB.content, callB.modifiedContent), edit)
       IN  callB' = IF ~MatchFound(o.how)
                    THEN [callB EXCEPT !.pc = "done", !.k = @ + 1,
                                       !.result = Thrown("EditNotApplicable", edit.oldText)]
                    ELSE [callB EXCEPT !.modifiedContent = o.content, !.k = @ + 1]
    /\ UNCHANGED <<disk, writeCalls, aVars, pathVars, serverVars>>

\* the second call: the diff, the write unless dryRun, the return
BFinish ==
    /\ callB.pc = "loop"
    /\ callB.k = Len(callB.edits)
    /\ LET diff == CreateUnifiedDiff(callB.content, callB.modifiedContent, filePath)
       IN  callB' = [callB EXCEPT !.pc = "done", !.result = Returned(FormattedDiff(diff))]
    /\ IF ShouldWrite(dryRun)
       THEN /\ disk' = FileWritten(callB.content, callB.modifiedContent)
            /\ writeCalls' = writeCalls + 1
       ELSE UNCHANGED <<disk, writeCalls>>
    /\ UNCHANGED <<aVars, pathVars, serverVars>>

\* two calls of one edit each on the file, dryRun false
InitConcurrent ==
    /\ disk \in SeqTexts
    /\ disk0 = disk
    /\ filePath = EditFile
    /\ edits \in {<<e>> : e \in [oldText : SeqTexts, newText : SeqTexts]}
    /\ dryRun = FALSE
    /\ pc = "validate"
    /\ validPath = <<>>
    /\ content = <<>>
    /\ modifiedContent = <<>>
    /\ k = 0
    /\ prev = <<>>
    /\ how = "none"
    /\ result = Pending
    /\ writeCalls = 0
    /\ \E es \in {<<e>> : e \in [oldText : SeqTexts, newText : SeqTexts]} :
          callB = CallState("validate", es, <<>>, <<>>, 0, Pending)
    /\ allowedDirectories = EditRoots
    /\ PathIdle
    /\ ServerIdle

NextConcurrent ==
    \/ AFEValidate
    \/ AFERead
    \/ AFEEditStep
    \/ AFEFinish
    \/ BValidate
    \/ BRead
    \/ BEditStep
    \/ BFinish

SpecConcurrent == InitConcurrent /\ [][NextConcurrent]_vars

\* the file after one whole call with edits es on the file d: written when
\* every edit matches, untouched when one does not
AfterCall(d, es) ==
    LET read == NormalizeLineEndings(d)
    IN  IF FirstUnmatched(read, es) = 0 THEN ContentAfter(read, es) ELSE d

\* the file after the two calls run one after the other, in either order
SerialResults ==
    { AfterCall(AfterCall(disk0, edits), callB.edits),
      AfterCall(AfterCall(disk0, callB.edits), edits) }

BothDone == pc = "done" /\ callB.pc = "done"

\* C20 -- Concurrent edit safety, as claimed: when two applyFileEdits calls
\* (dryRun false) on the same file run concurrently, in every interleaving of
\* their steps the final content of the file is the content that results from
\* running the two calls one after the other in some order.
C20_SerialOutcome == BothDone => disk \in SerialResults

\* C20 amended -- the final content of the file is the output of the call that
\* wrote last: that call's edits applied to the content it read, which is the
\* original content or the output of the other call. It is a serial result when
\* at most one call writes or when one call read what the other wrote; when
\* both calls read before either writes, the edits of the first writer are
\* lost.
C20_LastWriterWins ==
    BothDone =>
        LET aWrote == result.status = "returned"
            bWrote == callB.result.status = "returned"
            read0  == NormalizeLineEndings(disk0)
            outA   == modifiedContent
            outB   == callB.modifiedContent
        IN  /\ aWrote => /\ outA = ContentAfter(content, edits)
                         /\ content = read0
                            \/ (bWrote /\ content = NormalizeLineEndings(outB))
            /\ bWrote => /\ outB = ContentAfter(callB.content, callB.edits)
                         /\ callB.content = read0
                            \/ (aWrote /\ callB.content = NormalizeLineEndings(outA))
            /\ (~aWrote /\ ~bWrote) => disk = disk0
            /\ (aWrote \/ bWrote) => disk \in ({outA} \cup {outB})
            /\ (aWrote /\ ~bWrote) => disk = outA
            /\ (bWrote /\ ~aWrote) => disk = outB
            /\ ~(aWrote /\ bWrote) => disk \in SerialResults
            /\ (aWrote /\ bWrote /\ (content # read0 \/ callB.content # read0))
                  => disk \in SerialResults

\* a lost update: both calls read the original content, both write
C20_Witness ==
    /\ BothDone
    /\ result.status = "returned"
    /\ callB.result.status = "returned"
    /\ content = disk0
    /\ callB.content = disk0
    /\ modifiedContent # disk0
    /\ callB.modifiedContent # disk0
    /\ disk = callB.modifiedContent
    /\ disk \notin SerialResults

====
